---- MODULE Spec2Model ----
(***************************************************************************)
(* A model of the struct validator (src/validator.go,                      *)
(* src/validate_utils.go).                                                 *)
(*                                                                         *)
(* Go strings that the code inspects (tags, text values) are sequences of  *)
(* characters, each character a one-element TLA+ string; field names and   *)
(* error messages, which the code only concatenates, are TLA+ strings.     *)
(* A value handed to Validate is a record [Kind, Int, Str, Fields]; a      *)
(* struct field adds Name, PkgPath, HasTag and Tag (reflect.StructField).  *)
(***************************************************************************)
EXTENDS Integers, Sequences, FiniteSets, TLC

\* ------------------------------------------------------------------ bounds

\* Fields (at any depth) of a record of the tree-shaped inputs.
MaxNodes == 3
\* Clauses of a generated annotation.
MaxClauses == 3
\* Integer values and bounds range over -MaxVal..MaxVal (and +-BigVal).
MaxVal == 2
\* A two-digit magnitude, so that parsing and printing see several digits.
BigVal == 12
\* Characters of a generated text value.
MaxStrLen == 2

\* ------------------------------------------------- strings (Go's library)

DigitChars == <<"0", "1", "2", "3", "4", "5", "6", "7", "8", "9">>

IsDigit(c) == \E d \in 1..10 : DigitChars[d] = c

DigitVal(c) == (CHOOSE d \in 1..10 : DigitChars[d] = c) - 1

\* string(chars): the TLA+ string of a character sequence.
RECURSIVE Str(_)
Str(s) == IF s = <<>> THEN "" ELSE Head(s) \o Str(Tail(s))

\* The characters that take two bytes in UTF-8; every other one takes one.
TwoByteChars == {"é"}

\* len(s) of a Go string: its length in bytes.
RECURSIVE ByteLen(_)
ByteLen(s) ==
    IF s = <<>> THEN 0
    ELSE (IF Head(s) \in TwoByteChars THEN 2 ELSE 1) + ByteLen(Tail(s))

\* strings.Split(s, sep) for a one-character separator.
RECURSIVE Split(_, _)
Split(s, sep) ==
    IF \A k \in 1..Len(s) : s[k] # sep THEN <<s>>
    ELSE LET k == CHOOSE j \in 1..Len(s) :
                      s[j] = sep /\ \A m \in 1..(j - 1) : s[m] # sep
         IN  <<SubSeq(s, 1, k - 1)>> \o Split(SubSeq(s, k + 1, Len(s)), sep)

RECURSIVE digitsValue(_, _)
digitsValue(s, acc) ==
    IF s = <<>> THEN acc
    ELSE digitsValue(Tail(s), acc * 10 + DigitVal(Head(s)))

\* strconv.Atoi: an optional sign, then one or more decimal digits.  (The
\* digit strings of this model are far shorter than the 19 digits at which
\* Atoi reports a range error.)
Atoi(s) ==
    LET signed == s # <<>> /\ Head(s) \in {"-", "+"}
        body   == IF signed THEN Tail(s) ELSE s
    IN  IF body = <<>> \/ \E k \in 1..Len(body) : ~IsDigit(body[k])
        THEN [err |-> TRUE, val |-> 0]
        ELSE [err |-> FALSE,
              val |-> IF Head(s) = "-" THEN 0 - digitsValue(body, 0)
                      ELSE digitsValue(body, 0)]

RECURSIVE natDigits(_)
natDigits(n) ==
    IF n < 10 THEN <<DigitChars[n + 1]>>
    ELSE Append(natDigits(n \div 10), DigitChars[(n % 10) + 1])

\* The characters fmt prints for an int under %d (strconv.Itoa).
Itoa(n) == IF n < 0 THEN <<"-">> \o natDigits(0 - n) ELSE natDigits(n)

\* fmt's %d
FmtInt(n) == Str(Itoa(n))

RECURSIVE joinSpace(_)
joinSpace(strs) ==
    IF strs = <<>> THEN ""
    ELSE IF Len(strs) = 1 THEN Head(strs)
    ELSE Head(strs) \o " " \o joinSpace(Tail(strs))

\* fmt's %v of a []int: "[1 2 3]"
FmtIntSlice(ns) == "[" \o joinSpace([k \in 1..Len(ns) |-> FmtInt(ns[k])]) \o "]"

\* fmt's %v of a []string: "[ab cd]"
FmtStrSlice(ss) == "[" \o joinSpace([k \in 1..Len(ss) |-> Str(ss[k])]) \o "]"

\* ------------------------------------------------------------------ errors

nil == [kind |-> "nil"]

ErrNotStruct ==
    [kind |-> "sentinel", msg |-> "wrong argument given, should be a struct"]

ErrInvalidValidatorSyntax ==
    [kind |-> "sentinel", msg |-> "invalid validator syntax"]

ErrValidateForUnexportedFields ==
    [kind |-> "sentinel",
     msg |-> "validation for unexported field is not allowed"]

\* fmt.Errorf(...): a fresh error carrying its formatted message.
Errorf(msg) == [kind |-> "fmtError", msg |-> msg]

ValidationError(field, err) ==
    [kind |-> "ValidationError", Field |-> field, Err |-> err]

ValidationErrors(es) == [kind |-> "ValidationErrors", errs |-> es]

RECURSIVE joinNewline(_)
joinNewline(strs) ==
    IF strs = <<>> THEN ""
    ELSE IF Len(strs) = 1 THEN Head(strs)
    ELSE Head(strs) \o "\n" \o joinNewline(Tail(strs))

\* err.Error() of every error value of the package.
RECURSIVE Error(_)
Error(e) ==
    CASE e.kind = "ValidationError" ->
             e.Field \o ": " \o Error(e.Err)
      [] e.kind = "ValidationErrors" ->
             IF Len(e.errs) = 1 THEN Error(e.errs[1].Err)
             ELSE joinNewline([k \in 1..Len(e.errs) |-> Error(e.errs[k])])
      [] OTHER -> e.msg

\* -------------------------------------------------------------- validators

contains(s, needle) == \E k \in 1..Len(s) : s[k] = needle

RECURSIVE parseIntSliceLoop(_, _)
parseIntSliceLoop(strVals, intVals) ==
    IF strVals = <<>> THEN [err |-> FALSE, vals |-> intVals]
    ELSE LET r == Atoi(Head(strVals))
         IN  IF r.err THEN [err |-> TRUE, vals |-> <<>>]
             ELSE parseIntSliceLoop(Tail(strVals), Append(intVals, r.val))

parseIntSlice(s) == parseIntSliceLoop(Split(s, ","), <<>>)

noValidator == [type |-> "none"]

newIntMinValidator(s) ==
    LET r == Atoi(s)
    IN  IF r.err THEN [err |-> TRUE, validator |-> noValidator]
        ELSE [err |-> FALSE,
              validator |-> [type |-> "intMinValidator", min |-> r.val]]

newIntMaxValidator(s) ==
    LET r == Atoi(s)
    IN  IF r.err THEN [err |-> TRUE, validator |-> noValidator]
        ELSE [err |-> FALSE,
              validator |-> [type |-> "intMaxValidator", max |-> r.val]]

newIntInValidator(s) ==
    LET r == parseIntSlice(s)
    IN  IF r.err THEN [err |-> TRUE, validator |-> noValidator]
        ELSE [err |-> FALSE,
              validator |-> [type |-> "intInValidator", in |-> r.vals]]

newStrLenValidator(s) ==
    LET r == Atoi(s)
    IN  IF r.err THEN [err |-> TRUE, validator |-> noValidator]
        ELSE [err |-> FALSE,
              validator |-> [type |-> "strLenValidator", l |-> r.val]]

newStrMinValidator(s) ==
    LET r == Atoi(s)
    IN  IF r.err THEN [err |-> TRUE, validator |-> noValidator]
        ELSE [err |-> FALSE,
              validator |-> [type |-> "strMinValidator", min |-> r.val]]

newStrMaxValidator(s) ==
    LET r == Atoi(s)
    IN  IF r.err THEN [err |-> TRUE, validator |-> noValidator]
        ELSE [err |-> FALSE,
              validator |-> [type |-> "strMaxValidator", max |-> r.val]]

newStrInValidator(s) ==
    [err |-> FALSE,
     validator |-> [type |-> "strInValidator", in |-> Split(s, ",")]]

\* Mutant: the bound itself is rejected (<= for <).
intMinValidator_validate_le(v, i) ==
    LET val == i.Int
    IN  IF val <= v.min
        THEN Errorf(FmtInt(val) \o " is less than min allowed " \o FmtInt(v.min))
        ELSE nil

intMinValidator_validate(v, i) ==
    LET val == i.Int
    IN  IF val < v.min
        THEN Errorf(FmtInt(val) \o " is less than min allowed " \o FmtInt(v.min))
        ELSE nil

intMaxValidator_validate(v, i) ==
    LET val == i.Int
    IN  IF val > v.max
        THEN Errorf(FmtInt(val) \o " is higher than max allowed " \o FmtInt(v.max))
        ELSE nil

intInValidator_validate(v, i) ==
    LET val == i.Int
    IN  IF ~contains(v.in, val)
        THEN Errorf(FmtInt(val) \o " is not in " \o FmtIntSlice(v.in))
        ELSE nil

strLenValidator_validate(v, s) ==
    LET val == s.Str
    IN  IF ByteLen(val) # v.l
        THEN Errorf("len of " \o Str(val) \o " is not equal to " \o FmtInt(v.l))
        ELSE nil

strMinValidator_validate(v, s) ==
    LET val == s.Str
    IN  IF ByteLen(val) < v.min
        THEN Errorf("len of " \o Str(val) \o " is less than min allowed "
                    \o FmtInt(v.min))
        ELSE nil

strMaxValidator_validate(v, s) ==
    LET val == s.Str
    IN  IF ByteLen(val) > v.max
        THEN Errorf("len of " \o Str(val) \o " is higher than max allowed "
                    \o FmtInt(v.max))
        ELSE nil

strInValidator_validate(v, s) ==
    LET val == s.Str
    IN  IF ~contains(v.in, val)
        THEN Errorf(Str(val) \o " is not in " \o FmtStrSlice(v.in))
        ELSE nil

\* validator.validate(fv): the fieldValidator interface's dynamic dispatch.
validate(validator, fv) ==
    CASE validator.type = "intMinValidator" -> intMinValidator_validate(validator, fv)
      [] validator.type = "intMaxValidator" -> intMaxValidator_validate(validator, fv)
      [] validator.type = "intInValidator"  -> intInValidator_validate(validator, fv)
      [] validator.type = "strLenValidator" -> strLenValidator_validate(validator, fv)
      [] validator.type = "strMinValidator" -> strMinValidator_validate(validator, fv)
      [] validator.type = "strMaxValidator" -> strMaxValidator_validate(validator, fv)
      [] validator.type = "strInValidator"  -> strInValidator_validate(validator, fv)

\* A fieldValidatorCreator applied to the clause's value.
createValidator(creator, s) ==
    CASE creator = "newIntMinValidator" -> newIntMinValidator(s)
      [] creator = "newIntMaxValidator" -> newIntMaxValidator(s)
      [] creator = "newIntInValidator"  -> newIntInValidator(s)
      [] creator = "newStrLenValidator" -> newStrLenValidator(s)
      [] creator = "newStrMinValidator" -> newStrMinValidator(s)
      [] creator = "newStrMaxValidator" -> newStrMaxValidator(s)
      [] creator = "newStrInValidator"  -> newStrInValidator(s)

\* ------------------------------------------------------------------ parser

kMin == <<"m", "i", "n">>
kMax == <<"m", "a", "x">>
kLen == <<"l", "e", "n">>
kIn  == <<"i", "n">>

intValidators ==
    (kMin :> "newIntMinValidator") @@ (kMax :> "newIntMaxValidator")
        @@ (kIn :> "newIntInValidator")

strValidators ==
    (kLen :> "newStrLenValidator") @@ (kMin :> "newStrMinValidator")
        @@ (kMax :> "newStrMaxValidator") @@ (kIn :> "newStrInValidator")

parseFailed == [err |-> ErrInvalidValidatorSyntax, validators |-> <<>>]

RECURSIVE parseClauses(_, _, _)

\* Mutant: a bad clause is skipped and the other clauses still count.
parseClauses_skipBad(fieldValidators, kvs, validators) ==
    IF kvs = <<>> THEN [err |-> nil, validators |-> validators]
    ELSE LET vals == Split(Head(kvs), ":")
             bad == \/ Len(vals) # 2
                    \/ Len(vals[1]) = 0
                    \/ Len(vals[2]) = 0
                    \/ vals[1] \notin DOMAIN fieldValidators
                    \/ createValidator(fieldValidators[vals[1]], vals[2]).err
         IN  parseClauses(fieldValidators, Tail(kvs),
                          IF bad THEN validators
                          ELSE Append(validators,
                                      createValidator(fieldValidators[vals[1]],
                                                      vals[2]).validator))

\* The loop over the clauses: the first bad clause ends the parse.
parseClauses(fieldValidators, kvs, validators) ==
    IF kvs = <<>> THEN [err |-> nil, validators |-> validators]
    ELSE LET vals == Split(Head(kvs), ":")
         IN  IF Len(vals) # 2 \/ Len(vals[1]) = 0 \/ Len(vals[2]) = 0
             THEN parseFailed
             ELSE IF vals[1] \notin DOMAIN fieldValidators
             THEN parseFailed
             ELSE LET r == createValidator(fieldValidators[vals[1]], vals[2])
                  IN  IF r.err THEN parseFailed
                      ELSE parseClauses(fieldValidators, Tail(kvs),
                                        Append(validators, r.validator))

\* log.Panicf("unsupported type: ...")
parsePanics == [err |-> [kind |-> "panic"], validators |-> <<>>]

\* parseValidators(t, tag), kind being t.Kind().
parseValidators(kind, tag) ==
    CASE kind = "int"    -> parseClauses(intValidators, Split(tag, ";"), <<>>)
      [] kind = "string" -> parseClauses(strValidators, Split(tag, ";"), <<>>)
      [] OTHER           -> parsePanics

\* --------------------------------------------------------------- traversal

\* f.Tag.Lookup("validate") is (f.Tag, f.HasTag).
RECURSIVE needValidation(_)
needValidation(f) ==
    CASE f.Kind \in {"int", "string"} -> f.HasTag
      [] f.Kind = "struct" ->
             \E k \in 1..Len(f.Fields) : needValidation(f.Fields[k])
      [] OTHER -> FALSE

\* f.IsExported(): the field's PkgPath is empty.
IsExported(f) == f.PkgPath = ""

\* vv.Field(i).Interface(): the field's value, without the field's descriptor.
FieldValue(f) ==
    [Kind |-> f.Kind, Int |-> f.Int, Str |-> f.Str, Fields |-> f.Fields]

\* Mutant: an unexported annotated field is skipped silently.
unexportedErrs_silent(f) == <<>>

\* errs = append(errs, ValidationError{f.Name, ErrValidateForUnexportedFields})
unexportedErrs(f) ==
    <<ValidationError(f.Name, ErrValidateForUnexportedFields)>>

\* Mutant: the outer name replaces the inner field's name instead of wrapping it.
wrapNested_dropInner(f, nestedErrs) ==
    IF nestedErrs = nil THEN <<>>
    ELSE [k \in 1..Len(nestedErrs.errs) |->
              ValidationError(f.Name, nestedErrs.errs[k].Err)]

\* The nested call's errors, each wrapped with the outer field's name.
wrapNested(f, nestedErrs) ==
    IF nestedErrs = nil THEN <<>>
    ELSE [k \in 1..Len(nestedErrs.errs) |->
              ValidationError(f.Name, nestedErrs.errs[k])]

RECURSIVE evalValidators(_, _)

\* Mutant: the loop stops at the first violated constraint.
evalValidators_stopAtFirst(f, validators) ==
    IF validators = <<>> THEN <<>>
    ELSE LET err == validate(Head(validators), FieldValue(f))
         IN  IF err # nil THEN <<ValidationError(f.Name, err)>>
             ELSE evalValidators(f, Tail(validators))

\* Mutant: the validators run in the reverse of the clauses' order.
evalValidators_reversed(f, validators) ==
    IF validators = <<>> THEN <<>>
    ELSE LET err == validate(Head(validators), FieldValue(f))
         IN  evalValidators(f, Tail(validators))
                 \o (IF err # nil THEN <<ValidationError(f.Name, err)>> ELSE <<>>)

\* for _, validator := range validators { ... }
evalValidators(f, validators) ==
    IF validators = <<>> THEN <<>>
    ELSE LET err == validate(Head(validators), FieldValue(f))
         IN  (IF err # nil THEN <<ValidationError(f.Name, err)>> ELSE <<>>)
                 \o evalValidators(f, Tail(validators))

\* A leaf field: parse the annotation, then evaluate every validator.
leafErrs(f) ==
    LET p == parseValidators(f.Kind, f.Tag)
    IN  IF p.err # nil THEN <<ValidationError(f.Name, p.err)>>
        ELSE evalValidators(f, p.validators)

RECURSIVE Validate(_)

\* One iteration of Validate's loop: what it appends to errs for field f.
fieldErrs(f) ==
    IF ~needValidation(f) THEN <<>>
    ELSE IF ~IsExported(f) THEN unexportedErrs(f)
    ELSE IF f.Kind = "struct" THEN wrapNested(f, Validate(FieldValue(f)))
    ELSE leafErrs(f)

RECURSIVE loopErrs(_)
loopErrs(fields) ==
    IF fields = <<>> THEN <<>>
    ELSE fieldErrs(Head(fields)) \o loopErrs(Tail(fields))

\* Mutant: the aggregate is returned even when it is empty.
returned_emptyAggregate(es) == ValidationErrors(es)

\* if len(errs) == 0 { return nil }; return errs
returned(es) == IF Len(es) = 0 THEN nil ELSE ValidationErrors(es)

\* Validate(v) as a function of its argument.  reflect.TypeOf(nil) is the nil
\* Type, and t.Kind() on it is a nil dereference: a run-time panic.
Validate(x) ==
    CASE x.Kind = "nil"    -> [kind |-> "panic"]
      [] x.Kind = "struct" -> returned(loopErrs(x.Fields))
      [] OTHER             -> ErrNotStruct

\* ------------------------------------------------------------------ inputs

\* A struct field with its value; its name is set by NameFields.
Field(kind, pkgPath, hasTag, tag, int, str, fields) ==
    [Name |-> "", PkgPath |-> pkgPath, Kind |-> kind, HasTag |-> hasTag,
     Tag |-> tag, Int |-> int, Str |-> str, Fields |-> fields]

\* Go names: an exported field's name starts with an upper-case letter and
\* the names of one struct's fields are distinct.
FieldName(pkgPath, pos) == (IF pkgPath = "" THEN "F" ELSE "f") \o FmtInt(pos)

RECURSIVE NameFields(_)
NameFields(fields) ==
    [p \in 1..Len(fields) |->
        [fields[p] EXCEPT !.Name = FieldName(fields[p].PkgPath, p),
                          !.Fields = NameFields(fields[p].Fields)]]

Struct(fields) ==
    [Kind |-> "struct", Int |-> 0, Str |-> <<>>, Fields |-> NameFields(fields)]

Clause(key, value) == key \o <<":">> \o value

RECURSIVE JoinClauses(_)
JoinClauses(clauses) ==
    IF Len(clauses) = 1 THEN Head(clauses)
    ELSE Head(clauses) \o <<";">> \o JoinClauses(Tail(clauses))

IntVals == (0 - MaxVal)..MaxVal \cup {0 - BigVal, BigVal}

TextChars == {"a", "é"}

TextVals == UNION {[1..n -> TextChars] : n \in 0..MaxStrLen}

\* min:B, max:B and len:B for every bound B.
BoundClauses == {Clause(k, Itoa(b)) : k \in {kMin, kMax, kLen}, b \in IntVals}

RECURSIVE JoinComma(_)
JoinComma(elems) ==
    IF Len(elems) = 1 THEN Head(elems)
    ELSE Head(elems) \o <<",">> \o JoinComma(Tail(elems))

\* The integer lists and the text lists of the in: clauses.
IntLists == {<<1>>, <<0 - 1, 2>>, <<0, BigVal, 0 - 2>>}

TextLists == {<<<<"a">>>>, <<<<"a">>, <<>>, <<"b">>>>, <<<<"é">>, <<"a", "a">>>>}

IntInClause(ns) == Clause(kIn, JoinComma([k \in 1..Len(ns) |-> Itoa(ns[k])]))

TextInClause(ss) == Clause(kIn, JoinComma(ss))

InClauses ==
    {IntInClause(ns) : ns \in IntLists}
        \cup {TextInClause(ss) : ss \in TextLists}
        \cup {Clause(kIn, <<"1", ",", ",", "2">>)}

OtherClauses ==
    { <<>>,
      Clause(kMin, <<>>),
      Clause(<<>>, <<"1">>),
      kMin,
      Clause(kMin, <<"1", ":", "2">>),
      Clause(kMin, <<"a">>),
      Clause(kMin, <<"1", "-">>),
      Clause(kMax, <<"+", "1">>),
      Clause(<<"f", "o", "o">>, <<"1">>) }

SingleClauses == BoundClauses \cup InClauses \cup OtherClauses

\* The clauses that annotations of several clauses are made of.
CoreClauses ==
    { Clause(kMin, <<"1">>),
      Clause(kMax, <<"-", "1">>),
      Clause(kIn, <<"0">>),
      Clause(kLen, <<"1">>),
      Clause(kMin, <<"a">>),
      <<>> }

\* Annotations of several clauses.
MultiTags ==
    {JoinClauses(cs) : cs \in UNION {[1..n -> CoreClauses] : n \in 2..MaxClauses}}

\* The text values the annotations of several clauses are evaluated against.
ShortTextVals == {s \in TextVals : Len(s) <= 1}

IntLeaf(pkgPath, hasTag, tag, int) ==
    Field("int", pkgPath, hasTag, tag, int, <<>>, <<>>)

TextLeaf(pkgPath, hasTag, tag, str) ==
    Field("string", pkgPath, hasTag, tag, 0, str, <<>>)

\* The leaves of the tree-shaped records.
TreeLeaves ==
    { IntLeaf("", TRUE, Clause(kMin, <<"1">>), 0),
      IntLeaf("", TRUE,
              JoinClauses(<<Clause(kMin, <<"1">>), Clause(kMax, <<"-", "1">>)>>), 0),
      TextLeaf("", TRUE, Clause(kLen, <<"1">>), <<"a">>),
      TextLeaf("", TRUE, Clause(kMin, <<"a">>), <<"a">>),
      IntLeaf("pkg", TRUE, Clause(kMin, <<"1">>), 0),
      TextLeaf("pkg", TRUE, Clause(kMin, <<"a">>), <<"é">>),
      IntLeaf("", FALSE, <<>>, 0),
      Field("bool", "", TRUE, Clause(kMin, <<"1">>), 0, <<>>, <<>>) }

StructField(pkgPath, fields) ==
    Field("struct", pkgPath, FALSE, <<>>, 0, <<>>, fields)

\* The field sequences of exactly n fields, nested ones counted.
RECURSIVE FieldSeqs(_)
FieldSeqs(n) ==
    IF n = 0 THEN {<<>>}
    ELSE UNION {
           {<<f>> \o rest :
               f \in (IF k = 1 THEN TreeLeaves ELSE {})
                       \cup {StructField(p, inner) :
                                p \in {"", "pkg"}, inner \in FieldSeqs(k - 1)},
               rest \in FieldSeqs(n - k)} : k \in 1..n }

TreeInputs == {Struct(fs) : fs \in UNION {FieldSeqs(n) : n \in 0..MaxNodes}}

NonStruct(kind, int, str, fields) ==
    [Kind |-> kind, Int |-> int, Str |-> str, Fields |-> fields]

\* Arguments that are no struct: primitives, a map, pointers (to a struct,
\* to an interface) and the nil interface.
NonStructInputs ==
    {NonStruct("int", n, <<>>, <<>>) : n \in IntVals}
        \cup {NonStruct("string", 0, s, <<>>) : s \in TextVals}
        \cup {NonStruct(k, 0, <<>>, <<>>) : k \in {"map", "ptr", "nil"}}
        \cup {NonStruct("ptr", 0, <<>>, NameFields(fs)) : fs \in FieldSeqs(1)}

\* ----------------------------------------------------------- state machine

VARIABLES
    v,      \* Validate's argument
    pc,     \* "call", "loop", "done" (returned) or "panic"
    i,      \* the loop's index (1-based)
    errs,   \* the errors appended so far
    ret     \* the value returned

vars == <<v, pc, i, errs, ret>>

\* Validate is called with: a record of one leaf field (every single-clause
\* annotation against every value, exported or not; every annotation of
\* several clauses), a tree-shaped record, or something that is no struct.
Init ==
    /\ \/ \E t \in SingleClauses, n \in IntVals, p \in {"", "pkg"} :
              v = Struct(<<IntLeaf(p, TRUE, t, n)>>)
       \/ \E t \in SingleClauses, s \in TextVals, p \in {"", "pkg"} :
              v = Struct(<<TextLeaf(p, TRUE, t, s)>>)
       \/ \E t \in MultiTags, n \in IntVals :
              v = Struct(<<IntLeaf("", TRUE, t, n)>>)
       \/ \E t \in MultiTags, s \in ShortTextVals :
              v = Struct(<<TextLeaf("", TRUE, t, s)>>)
       \/ v \in TreeInputs
       \/ v \in NonStructInputs
    /\ pc = "call"
    /\ i = 0
    /\ errs = <<>>
    /\ ret = nil

\* t := reflect.TypeOf(v) is nil for the nil interface: t.Kind() panics.
CallNil ==
    /\ pc = "call"
    /\ v.Kind = "nil"
    /\ pc' = "panic"
    /\ UNCHANGED <<v, i, errs, ret>>

\* if t.Kind() != reflect.Struct { return ErrNotStruct }
CallNotStruct ==
    /\ pc = "call"
    /\ v.Kind \notin {"nil", "struct"}
    /\ ret' = ErrNotStruct
    /\ pc' = "done"
    /\ UNCHANGED <<v, i, errs>>

\* errs := make(ValidationErrors, 0); i := 0
CallStruct ==
    /\ pc = "call"
    /\ v.Kind = "struct"
    /\ pc' = "loop"
    /\ i' = 1
    /\ errs' = <<>>
    /\ UNCHANGED <<v, ret>>

InLoop == pc = "loop" /\ i <= Len(v.Fields)

\* if !needValidation(f) { continue }
SkipField ==
    /\ InLoop
    /\ ~needValidation(v.Fields[i])
    /\ i' = i + 1
    /\ UNCHANGED <<v, pc, errs, ret>>

\* if !f.IsExported() { errs = append(...); continue }
UnexportedField ==
    /\ InLoop
    /\ needValidation(v.Fields[i])
    /\ ~IsExported(v.Fields[i])
    /\ errs' = errs \o unexportedErrs(v.Fields[i])
    /\ i' = i + 1
    /\ UNCHANGED <<v, pc, ret>>

\* if f.Type.Kind() == reflect.Struct { nestedErrs := Validate(...); ... }
NestedField ==
    /\ InLoop
    /\ needValidation(v.Fields[i])
    /\ IsExported(v.Fields[i])
    /\ v.Fields[i].Kind = "struct"
    /\ errs' = errs \o wrapNested(v.Fields[i], Validate(FieldValue(v.Fields[i])))
    /\ i' = i + 1
    /\ UNCHANGED <<v, pc, ret>>

\* validators, err := parseValidators(...); then either the parse error or
\* every validator's error is appended.
LeafField ==
    /\ InLoop
    /\ needValidation(v.Fields[i])
    /\ IsExported(v.Fields[i])
    /\ v.Fields[i].Kind # "struct"
    /\ errs' = errs \o leafErrs(v.Fields[i])
    /\ i' = i + 1
    /\ UNCHANGED <<v, pc, ret>>

\* if len(errs) == 0 { return nil }; return errs
Return ==
    /\ pc = "loop"
    /\ i > Len(v.Fields)
    /\ ret' = returned(errs)
    /\ pc' = "done"
    /\ UNCHANGED <<v, i, errs>>

Next ==
    \/ CallNil
    \/ CallNotStruct
    \/ CallStruct
    \/ SkipField
    \/ UnexportedField
    \/ NestedField
    \/ LeafField
    \/ Return

Spec == Init /\ [][Next]_vars

\* The loop computes what Validate, as a function, returns.
RetIsValidate == pc = "done" => ret = Validate(v)

\* ------------------------------------------------------------------ claims

\* The entries of an aggregate that carry a field's name, in their order.
EntriesFor(es, name) == SelectSeq(es, LAMBDA e : e.Field = name)

ReturnedFromStruct == pc = "done" /\ v.Kind = "struct"

\* C1: for every argument that is no struct (a primitive, a map, a pointer,
\* the nil interface) Validate returns ErrNotStruct itself, and returns
\* normally instead of panicking.
C1_NonStructReturnsErrNotStruct ==
    (v.Kind # "struct" /\ pc # "call") => (pc = "done" /\ ret = ErrNotStruct)

\* The cause at the end of a chain of field-qualified errors.
RECURSIVE InnermostErr(_)
InnermostErr(e) ==
    IF e.kind = "ValidationError" THEN InnermostErr(e.Err) ELSE e

\* C2: when the aggregate returned holds exactly one error, and that error
\* is one violated constraint of one field (top-level or nested in records),
\* the aggregate's message is the violation's message verbatim.
C2_SingleViolationRendersVerbatim ==
    (/\ ReturnedFromStruct
     /\ ret # nil
     /\ Len(ret.errs) = 1
     /\ InnermostErr(ret.errs[1]).kind = "fmtError")
        => Error(ret) = InnermostErr(ret.errs[1]).msg

\* C9: on an exported text field, min:N is violated iff the value has fewer
\* than N characters, max:N iff it has more than N, len:N iff its number of
\* characters differs from N.
C9_TextLengthCountsCharacters ==
    ReturnedFromStruct =>
        \A k \in 1..Len(v.Fields) :
            LET f == v.Fields[k]
                violated == EntriesFor(errs, f.Name) # <<>>
            IN  (f.Kind = "string" /\ f.HasTag /\ IsExported(f)) =>
                    \A b \in IntVals :
                        /\ f.Tag = Clause(kMin, Itoa(b))
                               => (violated <=> Len(f.Str) < b)
                        /\ f.Tag = Clause(kMax, Itoa(b))
                               => (violated <=> Len(f.Str) > b)
                        /\ f.Tag = Clause(kLen, Itoa(b))
                               => (violated <=> Len(f.Str) # b)

\* A field carries a validation annotation: an integer or text field with a
\* validate tag, or a record field with such a field somewhere inside it.
RECURSIVE CarriesAnnotation(_)
CarriesAnnotation(f) ==
    IF f.Kind = "struct"
    THEN \E k \in 1..Len(f.Fields) : CarriesAnnotation(f.Fields[k])
    ELSE f.Kind \in {"int", "string"} /\ f.HasTag

\* The causes of a sequence of field-qualified errors.
Causes(es) == [j \in 1..Len(es) |-> es[j].Err]

\* In the errors es of the fields, every annotated unexported field has
\* exactly the unexported-field error, and so at every depth that Validate
\* descends to (the exported record fields).
RECURSIVE UnexportedReported(_, _)
UnexportedReported(fields, es) ==
    \A k \in 1..Len(fields) :
        LET f == fields[k]
            mine == EntriesFor(es, f.Name)
        IN  /\ (CarriesAnnotation(f) /\ ~IsExported(f)) =>
                   mine = <<ValidationError(f.Name, ErrValidateForUnexportedFields)>>
            /\ (CarriesAnnotation(f) /\ IsExported(f) /\ f.Kind = "struct") =>
                   UnexportedReported(f.Fields, Causes(mine))

\* C3: every annotated field that is not exported gets exactly one
\* unexported-field error under its name, whatever its value and its
\* annotation's text, nothing else is reported for it, and the traversal
\* goes on to the fields after it (all fields are visited before returning).
C3_UnexportedFieldOneError ==
    /\ (pc \in {"loop", "done"} /\ v.Kind = "struct") =>
           UnexportedReported(SubSeq(v.Fields, 1, i - 1), errs)
    /\ ReturnedFromStruct => i = Len(v.Fields) + 1

\* An unexported annotated field was reported and a later field contributed
\* its own error.
C3_Witness ==
    /\ ReturnedFromStruct
    /\ \E k \in 1..(Len(v.Fields) - 1) :
           /\ CarriesAnnotation(v.Fields[k])
           /\ ~IsExported(v.Fields[k])
           /\ EntriesFor(errs, v.Fields[k].Name) # <<>>
           /\ EntriesFor(errs, v.Fields[k + 1].Name) # <<>>

\* An exported leaf field whose annotation parses.
ParsedLeaf(f) ==
    /\ f.Kind \in {"int", "string"}
    /\ f.HasTag
    /\ IsExported(f)
    /\ parseValidators(f.Kind, f.Tag).err = nil

\* The constraints of a parsed leaf field that its value violates.
Failing(f) ==
    LET vs == parseValidators(f.Kind, f.Tag).validators
    IN  {c \in 1..Len(vs) : validate(vs[c], FieldValue(f)) # nil}

\* C4: an exported leaf field whose annotation parses into n constraints of
\* which the value violates k contributes exactly k errors, one for each
\* violated constraint, all under the field's name; no entry of the
\* aggregate is under a name that is not a field's.
C4_OneErrorPerViolatedConstraint ==
    ReturnedFromStruct =>
        /\ \A k \in 1..Len(v.Fields) :
               LET f == v.Fields[k]
                   mine == EntriesFor(errs, f.Name)
                   vs == parseValidators(f.Kind, f.Tag).validators
               IN  ParsedLeaf(f) =>
                       /\ Len(mine) = Cardinality(Failing(f))
                       /\ \A c \in Failing(f) :
                              \E j \in 1..Len(mine) :
                                  mine[j].Err = validate(vs[c], FieldValue(f))
        /\ \A j \in 1..Len(errs) :
               \E k \in 1..Len(v.Fields) : errs[j].Field = v.Fields[k].Name

\* A field with three constraints of which exactly two are violated, the
\* first among them, has two errors.
C4_Witness ==
    /\ ReturnedFromStruct
    /\ \E k \in 1..Len(v.Fields) :
           /\ ParsedLeaf(v.Fields[k])
           /\ Len(parseValidators(v.Fields[k].Kind, v.Fields[k].Tag).validators) = 3
           /\ Cardinality(Failing(v.Fields[k])) = 2
           /\ 1 \in Failing(v.Fields[k])
           /\ Len(EntriesFor(errs, v.Fields[k].Name)) = 2

CountChar(s, c) == Cardinality({k \in 1..Len(s) : s[k] = c})

\* An optional sign followed by one or more digits.
IsIntText(s) ==
    /\ s # <<>>
    /\ LET digits == IF s[1] \in {"-", "+"} THEN Tail(s) ELSE s
       IN  digits # <<>> /\ \A k \in 1..Len(digits) : IsDigit(digits[k])

\* The clause is invalid for a field of this kind: not exactly one ':', an
\* empty key or value, a key the kind does not have, or a parameter the
\* constraint's constructor rejects.
ClauseInvalid(kind, clause) ==
    \/ CountChar(clause, ":") # 1
    \/ LET p == CHOOSE k \in 1..Len(clause) : clause[k] = ":"
           key == SubSeq(clause, 1, p - 1)
           value == SubSeq(clause, p + 1, Len(clause))
       IN  \/ key = <<>>
           \/ value = <<>>
           \/ key \notin (IF kind = "int" THEN {kMin, kMax, kIn}
                          ELSE {kMin, kMax, kLen, kIn})
           \/ key \in {kMin, kMax, kLen} /\ ~IsIntText(value)
           \/ /\ kind = "int"
              /\ key = kIn
              /\ \E m \in 1..Len(Split(value, ",")) :
                     ~IsIntText(Split(value, ",")[m])

HasInvalidClause(f) ==
    \E c \in 1..Len(Split(f.Tag, ";")) :
        ClauseInvalid(f.Kind, Split(f.Tag, ";")[c])

\* C5: an exported leaf field whose annotation has an invalid clause
\* contributes exactly one malformed-annotation error and no violation,
\* also when valid clauses that the value violates come before it.
C5_ParseAllOrNothing ==
    ReturnedFromStruct =>
        \A k \in 1..Len(v.Fields) :
            LET f == v.Fields[k]
            IN  (/\ f.Kind \in {"int", "string"}
                 /\ f.HasTag
                 /\ IsExported(f)
                 /\ HasInvalidClause(f))
                    => EntriesFor(errs, f.Name) =
                           <<ValidationError(f.Name, ErrInvalidValidatorSyntax)>>

\* min:1;min:a on the integer 0: the first clause is valid and violated, the
\* second is invalid, and the only error is the malformed-annotation error.
C5_Witness ==
    /\ ReturnedFromStruct
    /\ Len(v.Fields) = 1
    /\ v.Fields[1].Kind = "int"
    /\ v.Fields[1].Int = 0
    /\ IsExported(v.Fields[1])
    /\ v.Fields[1].Tag =
           JoinClauses(<<Clause(kMin, <<"1">>), Clause(kMin, <<"a">>)>>)
    /\ errs = <<ValidationError(v.Fields[1].Name, ErrInvalidValidatorSyntax)>>

\* How many entries of a sequence equal x.
Count(es, x) == Cardinality({j \in 1..Len(es) : es[j] = x})

\* C6: for every exported record field, the aggregate's entries under the
\* field's name are the errors of the nested record's own validation, one
\* for one and in the same order, each wrapped unchanged with the outer
\* field's name; a nested validation without errors contributes nothing.
\* Hence an error of a field two records deep appears once, wrapped through
\* the names of both containing fields.
C6_NestedErrorsWrappedOneForOne ==
    ReturnedFromStruct =>
        \A k \in 1..Len(v.Fields) :
            LET f == v.Fields[k]
                mine == EntriesFor(errs, f.Name)
                nested == Validate(FieldValue(f))
            IN  (f.Kind = "struct" /\ IsExported(f)) =>
                    /\ nested = nil => mine = <<>>
                    /\ nested # nil =>
                           /\ Len(mine) = Len(nested.errs)
                           /\ \A j \in 1..Len(mine) :
                                  /\ mine[j].Field = f.Name
                                  /\ mine[j].Err = nested.errs[j]
                    /\ \A m \in 1..Len(f.Fields) :
                           LET g == f.Fields[m]
                               inner == Validate(FieldValue(g))
                           IN  (g.Kind = "struct" /\ IsExported(g) /\ inner # nil) =>
                                   \A j \in 1..Len(inner.errs) :
                                       Count(errs,
                                             ValidationError(f.Name,
                                                 ValidationError(g.Name, inner.errs[j])))
                                           = Count(inner.errs, inner.errs[j])

\* One violated constraint two records deep: the aggregate has one entry,
\* wrapped twice around the innermost field's error and its cause.
C6_Witness ==
    /\ ReturnedFromStruct
    /\ Len(errs) = 1
    /\ errs[1].Err.kind = "ValidationError"
    /\ errs[1].Err.Err.kind = "ValidationError"
    /\ errs[1].Err.Err.Err.kind = "fmtError"
    /\ errs[1].Field = v.Fields[1].Name
    /\ errs[1].Err.Field = v.Fields[1].Fields[1].Name
    /\ errs[1].Err.Err.Field = v.Fields[1].Fields[1].Fields[1].Name

\* The position of the top-level field of that name.
FieldIndex(name) == CHOOSE k \in 1..Len(v.Fields) : v.Fields[k].Name = name

\* The errors of a parsed leaf field's violated constraints, in the order of
\* the clauses.
RECURSIVE ViolationsFrom(_, _, _)
ViolationsFrom(f, vs, c) ==
    IF c > Len(vs) THEN <<>>
    ELSE (IF c \in Failing(f)
          THEN <<ValidationError(f.Name, validate(vs[c], FieldValue(f)))>>
          ELSE <<>>) \o ViolationsFrom(f, vs, c + 1)

\* C7: the aggregate is ordered by field declaration (an entry of an earlier
\* field comes before every entry of a later one, so a field's entries, a
\* nested record's among them, form one block) and, within a leaf field, by
\* the order of the clauses of its annotation.
C7_FieldThenClauseOrder ==
    ReturnedFromStruct =>
        /\ \A j \in 1..Len(errs) :
               \E k \in 1..Len(v.Fields) : errs[j].Field = v.Fields[k].Name
        /\ \A a, b \in 1..Len(errs) :
               a < b => FieldIndex(errs[a].Field) <= FieldIndex(errs[b].Field)
        /\ \A k \in 1..Len(v.Fields) :
               LET f == v.Fields[k]
               IN  ParsedLeaf(f) =>
                       EntriesFor(errs, f.Name) =
                           ViolationsFrom(f, parseValidators(f.Kind, f.Tag).validators, 1)

\* Two errors of one field's two clauses, in clause order, then the block of
\* a later field, a nested record.
C7_Witness ==
    /\ ReturnedFromStruct
    /\ Len(v.Fields) >= 2
    /\ Len(errs) >= 3
    /\ errs[1].Field = v.Fields[1].Name
    /\ errs[2].Field = v.Fields[1].Name
    /\ errs[1].Err # errs[2].Err
    /\ errs[3].Field = v.Fields[2].Name
    /\ errs[3].Err.kind = "ValidationError"

\* C8: on a record, Validate returns nil exactly when no error was appended
\* for any field and otherwise the aggregate of the appended errors, which
\* is never empty; a record in which no field carries an annotation
\* validates successfully; a field that is neither integer, text nor record
\* contributes nothing.
C8_NilIffNoErrors ==
    ReturnedFromStruct =>
        /\ ret = nil <=> Len(errs) = 0
        /\ ret # nil =>
               /\ ret.kind = "ValidationErrors"
               /\ ret.errs = errs
               /\ Len(ret.errs) >= 1
        /\ (\A k \in 1..Len(v.Fields) : ~CarriesAnnotation(v.Fields[k])) => ret = nil
        /\ \A k \in 1..Len(v.Fields) :
               v.Fields[k].Kind \notin {"int", "string", "struct"} =>
                   EntriesFor(errs, v.Fields[k].Name) = <<>>

\* A record with fields, none of them annotated in the sense above, one of
\* them a tagged field of another kind: Validate returned nil.
C8_Witness ==
    /\ ReturnedFromStruct
    /\ Len(v.Fields) >= 2
    /\ \A k \in 1..Len(v.Fields) : ~CarriesAnnotation(v.Fields[k])
    /\ \E k \in 1..Len(v.Fields) :
           v.Fields[k].Kind \notin {"int", "string", "struct"} /\ v.Fields[k].HasTag
    /\ ret = nil

\* The members of a list, as a set.
Members(list) == {list[k] : k \in 1..Len(list)}

\* C10: a constraint built from valid parameter text yields exactly one
\* violation when its predicate fails and none when it holds: integer min:B
\* fails iff value < B, integer max:B iff value > B, integer in:a,b,.. iff
\* the value is none of the integers, text in:a,b,.. iff the value is none
\* of the elements (an empty element matching the empty text).
C10_OneViolationIffPredicateFails ==
    ReturnedFromStruct =>
        \A k \in 1..Len(v.Fields) :
            LET f == v.Fields[k]
                n == Len(EntriesFor(errs, f.Name))
                One(failed) == n = (IF failed THEN 1 ELSE 0)
            IN  (f.HasTag /\ IsExported(f)) =>
                    /\ f.Kind = "int" =>
                           /\ \A b \in IntVals :
                                  /\ f.Tag = Clause(kMin, Itoa(b)) => One(f.Int < b)
                                  /\ f.Tag = Clause(kMax, Itoa(b)) => One(f.Int > b)
                           /\ \A ns \in IntLists :
                                  f.Tag = IntInClause(ns) => One(f.Int \notin Members(ns))
                    /\ f.Kind = "string" =>
                           \A ss \in TextLists :
                               f.Tag = TextInClause(ss) => One(f.Str \notin Members(ss))

\* in:a,,b on the empty text: the empty element matches, no error.
C10_Witness ==
    /\ ReturnedFromStruct
    /\ Len(v.Fields) = 1
    /\ v.Fields[1].Kind = "string"
    /\ IsExported(v.Fields[1])
    /\ v.Fields[1].Tag = TextInClause(<<<<"a">>, <<>>, <<"b">>>>)
    /\ v.Fields[1].Str = <<>>
    /\ errs = <<>>

====
